---- MODULE Spec2Model ----
(***************************************************************************)
(* State-machine model of the two-body electrostatics core:                *)
(*   src/utils/Vector2.ts          Vector2                                 *)
(*   src/classes/ChargedObject.ts  ChargedObject and PhysicsEngine         *)
(*   src/constants.ts              PHYSICS_CONSTANTS                       *)
(*   src/unnamed/part_000          the App's handlers that drive them      *)
(*                                                                         *)
(* Numbers.  The code computes in IEEE doubles.  The model computes in     *)
(* fixed point: a length, velocity, acceleration or force is an integer    *)
(* count of 1/Scale of its unit (pixel, pixel/s, pixel/s^2, force unit),   *)
(* a unit direction is a count of 1/Scale, a mass a count of 1/MassScale,  *)
(* a friction coefficient a count of 1/FrictionScale and a time step a     *)
(* count of milliseconds.  Every product or quotient is rounded to the     *)
(* nearest count, half away from zero, so that negation commutes with      *)
(* every operation as it does for doubles.                                 *)
(***************************************************************************)
EXTENDS Integers, Sequences, FiniteSets, TLC

\* ------------------------------------------------------------ numbers

Scale == 1000
MassScale == 10
FrictionScale == 1000
MsPerSecond == 1000

Abs(a) == IF a < 0 THEN -a ELSE a

Sgn(a) == IF a < 0 THEN -1 ELSE IF a > 0 THEN 1 ELSE 0

Min(a, b) == IF a < b THEN a ELSE b

Max(a, b) == IF a > b THEN a ELSE b

\* a * b / c for a, b >= 0 and c > 0, rounded to nearest, computed without
\* forming a * b (which may not fit a 32-bit integer).
MulDivNat(a, b, c) ==
    (a \div c) * b + (((a % c) * b + (c \div 2)) \div c)

\* a * b / c, c > 0, rounded to nearest, half away from zero.
MulDiv(a, b, c) == Sgn(a) * Sgn(b) * MulDivNat(Abs(a), Abs(b), c)

\* a / c, c > 0, rounded to nearest, half away from zero.
DivR(a, c) == Sgn(a) * ((Abs(a) + (c \div 2)) \div c)

\* Math.sqrt on naturals: the integer square root, by bisection.
RECURSIVE SqrtBisect(_, _, _)
SqrtBisect(n, lo, hi) ==
    IF lo >= hi THEN lo
    ELSE LET mid == (lo + hi + 1) \div 2
         IN  IF mid * mid <= n THEN SqrtBisect(n, mid, hi)
             ELSE SqrtBisect(n, lo, mid - 1)

SqrtLimit == 46340

Sqrt(n) == SqrtBisect(n, 0, Min(n, SqrtLimit))

\* ------------------------------------------------------------ Vector2

Vec(x, y) == [x |-> x, y |-> y]

zero == Vec(0, 0)

add(v, w) == Vec(v.x + w.x, v.y + w.y)

\* subtract with its operands exchanged.
subtract_Reversed(v, w) == Vec(w.x - v.x, w.y - v.y)

subtract(v, w) == Vec(v.x - w.x, v.y - w.y)

\* v.multiply(num / den)
multiply(v, num, den) == Vec(MulDiv(v.x, num, den), MulDiv(v.y, num, den))

\* Math.sqrt(x * x + y * y).  On an axis the root is exact; off the axes the
\* squares of large components do not fit, so both components are first
\* divided by the smallest k that makes them fit and the root is scaled back
\* (k = 1, hence the plain integer root, for components up to MagLimit).
MagLimit == 30000

magnitude(v) ==
    LET ax == Abs(v.x)
        ay == Abs(v.y)
        k  == (Max(ax, ay) \div MagLimit) + 1
    IN  IF ay = 0 THEN ax
        ELSE IF ax = 0 THEN ay
        ELSE k * Sqrt((ax \div k) * (ax \div k) + (ay \div k) * (ay \div k))

\* The unit vector, in counts of 1/Scale; the zero vector when mag === 0.
normalize(v) ==
    LET mag == magnitude(v)
    IN  IF mag = 0 THEN zero
        ELSE Vec(MulDiv(v.x, Scale, mag), MulDiv(v.y, Scale, mag))

\* ------------------------------------------------------------ constants

K_COULOMB == 20000
MAX_TRAIL_LENGTH == 50
MIN_DISTANCE == 60
TRAIL_UPDATE_FREQ == 5

\* A charge is a count of 1/ChargeScale.
ChargeScale == 100

\* ------------------------------------------------------------ ChargedObject

\* 20 + Math.sqrt(mass) * 2, in counts of 1/Scale.
RadiusOf(mass) == 20 * Scale + Sqrt(mass * ((4 * Scale * Scale) \div MassScale))

\* new ChargedObject(id, x, y, mass, charge)
ChargedObject(id, x, y, mass, charge) ==
    [ id           |-> id,
      position     |-> Vec(x, y),
      velocity     |-> zero,
      acceleration |-> zero,
      mass         |-> mass,
      charge       |-> charge,
      radius       |-> RadiusOf(mass),
      isLocked     |-> FALSE,
      trail        |-> << >>,
      trailTimer   |-> 0 ]

applyForce(obj, force) ==
    IF obj.isLocked THEN obj
    ELSE LET accel == multiply(force, MassScale, obj.mass)
         IN  [obj EXCEPT !.acceleration = add(obj.acceleration, accel)]

\* Math.max(0, 1 - friction * dt * 60), in counts of 1/Scale.
frictionFactor(dt, friction) ==
    Max(0, Scale - DivR(friction * dt * 60,
                        (FrictionScale * MsPerSecond) \div Scale))

\* pushTrail that drops the newest entry instead of the oldest.
pushTrail_DropNewest(trail, pt) ==
    IF Len(trail) >= MAX_TRAIL_LENGTH THEN trail ELSE Append(trail, pt)

\* trail.push(pt); if (trail.length > MAX_TRAIL_LENGTH) trail.shift()
pushTrail(trail, pt) ==
    LET pushed == Append(trail, pt)
    IN  IF Len(pushed) > MAX_TRAIL_LENGTH THEN Tail(pushed) ELSE pushed

\* The trail step that ends updatePhysics: trailTimer++, and a sample of
\* the position when the timer reaches TRAIL_UPDATE_FREQ.
sampleTrail(obj) ==
    LET timer == obj.trailTimer + 1
    IN  IF timer >= TRAIL_UPDATE_FREQ
        THEN [obj EXCEPT !.trail = pushTrail(obj.trail, obj.position),
                         !.trailTimer = 0]
        ELSE [obj EXCEPT !.trailTimer = timer]

\* integrate that moves the position by the velocity of the frame before.
integrate_OldVelocity(obj, dt, friction) ==
    LET v1 == multiply(obj.velocity, frictionFactor(dt, friction), Scale)
        v2 == add(v1, multiply(obj.acceleration, dt, MsPerSecond))
        p2 == add(obj.position, multiply(obj.velocity, dt, MsPerSecond))
    IN  [obj EXCEPT !.velocity = v2, !.position = p2, !.acceleration = zero]

\* The unlocked branch of updatePhysics up to the acceleration reset.
integrate(obj, dt, friction) ==
    LET v1 == multiply(obj.velocity, frictionFactor(dt, friction), Scale)
        v2 == add(v1, multiply(obj.acceleration, dt, MsPerSecond))
        p2 == add(obj.position, multiply(v2, dt, MsPerSecond))
    IN  [obj EXCEPT !.velocity = v2, !.position = p2, !.acceleration = zero]

\* updatePhysics whose locked branch runs the trail step too.
updatePhysics_LockedCounts(obj, dt, friction) ==
    IF obj.isLocked
    THEN sampleTrail([obj EXCEPT !.velocity = zero, !.acceleration = zero])
    ELSE sampleTrail(integrate(obj, dt, friction))

\* updatePhysics without its locked branch.
updatePhysics_IgnoreLock(obj, dt, friction) ==
    sampleTrail(integrate(obj, dt, friction))

updatePhysics(obj, dt, friction) ==
    IF obj.isLocked
    THEN [obj EXCEPT !.velocity = zero, !.acceleration = zero]
    ELSE sampleTrail(integrate(obj, dt, friction))

\* reset(x, y): the trail timer is not touched.
reset(obj, x, y) ==
    [obj EXCEPT !.position = Vec(x, y), !.velocity = zero,
                !.acceleration = zero, !.trail = << >>]

\* ------------------------------------------------------------ PhysicsEngine

\* resolveAxis without the test against the far wall.
resolveAxis_NearWallOnly(pos, vel, padding, extent) ==
    IF pos < padding
    THEN <<padding, IF vel < 0 THEN MulDiv(vel, -1, 2) ELSE vel>>
    ELSE <<pos, vel>>

\* resolveAxis that bounces whichever way the velocity points.
resolveAxis_AlwaysBounce(pos, vel, padding, extent) ==
    IF pos < padding
    THEN <<padding, MulDiv(vel, -1, 2)>>
    ELSE IF pos > extent - padding
    THEN <<extent - padding, MulDiv(vel, -1, 2)>>
    ELSE <<pos, vel>>

\* One axis of resolveBounds: <<position, velocity>> on that axis.
resolveAxis(pos, vel, padding, extent) ==
    IF pos < padding
    THEN <<padding, IF vel < 0 THEN MulDiv(vel, -1, 2) ELSE vel>>
    ELSE IF pos > extent - padding
    THEN <<extent - padding, IF vel > 0 THEN MulDiv(vel, -1, 2) ELSE vel>>
    ELSE <<pos, vel>>

resolveBounds(obj, bounds) ==
    LET padding == obj.radius
        h == resolveAxis(obj.position.x, obj.velocity.x, padding, bounds.width)
        v == resolveAxis(obj.position.y, obj.velocity.y, padding, bounds.height)
    IN  [obj EXCEPT !.position = Vec(h[1], v[1]), !.velocity = Vec(h[2], v[2])]

\* defaultSeparation without the clamp to [150, 300].
defaultSeparation_Unclamped(bounds) ==
    MulDiv(Min(bounds.width, bounds.height), 6, 10)

\* Math.max(150, Math.min(300, minDim * 0.6))
defaultSeparation(bounds) ==
    Max(150 * Scale,
        Min(300 * Scale, MulDiv(Min(bounds.width, bounds.height), 6, 10)))

\* initializeDefault that creates the first particle only.
initializeDefault_Single(bounds) ==
    LET centerX == DivR(bounds.width, 2)
        centerY == DivR(bounds.height, 2)
        halfSep == DivR(defaultSeparation(bounds), 2)
    IN  << ChargedObject("obj1", centerX - halfSep, centerY,
                         MassScale, 5 * ChargeScale) >>

\* initializeDefault that gives both particles the id 'obj1'.
initializeDefault_OneId(bounds) ==
    LET centerX == DivR(bounds.width, 2)
        centerY == DivR(bounds.height, 2)
        halfSep == DivR(defaultSeparation(bounds), 2)
    IN  << ChargedObject("obj1", centerX - halfSep, centerY,
                         MassScale, 5 * ChargeScale),
           ChargedObject("obj1", centerX + halfSep, centerY,
                         MassScale, -5 * ChargeScale) >>

initializeDefault(bounds) ==
    LET centerX == DivR(bounds.width, 2)
        centerY == DivR(bounds.height, 2)
        halfSep == DivR(defaultSeparation(bounds), 2)
    IN  << ChargedObject("obj1", centerX - halfSep, centerY,
                         MassScale, 5 * ChargeScale),
           ChargedObject("obj2", centerX + halfSep, centerY,
                         MassScale, -5 * ChargeScale) >>

defaultFriction == FrictionScale \div 100

shiftPoint(pt, dx, dy) == Vec(pt.x + dx, pt.y + dy)

\* shiftObject that moves the position and leaves the trail behind.
shiftObject_PositionOnly(obj, dx, dy) ==
    [obj EXCEPT !.position = shiftPoint(obj.position, dx, dy)]

shiftObject(obj, dx, dy) ==
    [obj EXCEPT !.position = shiftPoint(obj.position, dx, dy),
                !.trail = [k \in 1..Len(obj.trail) |->
                              shiftPoint(obj.trail[k], dx, dy)]]

\* resize(width, height): the objects after the shift.
resize(objs, bounds, width, height) ==
    LET dx == DivR(width - bounds.width, 2)
        dy == DivR(height - bounds.height, 2)
    IN  [i \in 1..Len(objs) |-> shiftObject(objs[i], dx, dy)]

\* clampedDistance with half the floor.
clampedDistance_HalfFloor(rVec) ==
    Max(magnitude(rVec), (MIN_DISTANCE * Scale) \div 2)

\* dist = Math.max(rVec.magnitude(), MIN_DISTANCE)
clampedDistance(rVec) == Max(magnitude(rVec), MIN_DISTANCE * Scale)

\* (K_COULOMB * Math.abs(qProduct)) / (dist * dist), in counts of 1/Scale:
\* dist * dist is taken in whole square pixels (it is at least 3600).
forceMagnitude(qProduct, dist) ==
    LET kq == DivR(K_COULOMB * DivR(Abs(qProduct), ChargeScale), ChargeScale)
        d2 == DivR(MulDivNat(dist, dist, Scale), Scale)
    IN  DivR(kq * Scale, d2)

\* forceOnA with the two signs exchanged.
forceOnA_SignsSwapped(objA, objB) ==
    LET rVec     == subtract(objB.position, objA.position)
        dist     == clampedDistance(rVec)
        dir      == normalize(rVec)
        qProduct == objA.charge * objB.charge
        forceMag == forceMagnitude(qProduct, dist)
    IN  IF qProduct < 0 THEN multiply(dir, -forceMag, Scale)
        ELSE IF qProduct > 0 THEN multiply(dir, forceMag, Scale)
        ELSE zero

\* forceOnA of the pair (objA, objB).
forceOnA(objA, objB) ==
    LET rVec     == subtract(objB.position, objA.position)
        dist     == clampedDistance(rVec)
        dir      == normalize(rVec)
        qProduct == objA.charge * objB.charge
        forceMag == forceMagnitude(qProduct, dist)
    IN  IF qProduct < 0 THEN multiply(dir, forceMag, Scale)
        ELSE IF qProduct > 0 THEN multiply(dir, -forceMag, Scale)
        ELSE zero

\* forceOnB that negates the x component only.
forceOnB_FlipsXOnly(fA) == Vec(-fA.x, fA.y)

\* forceOnB = forceOnA.multiply(-1)
forceOnB(fA) == multiply(fA, -1, 1)

\* The pairs (i, j), i < j, in the order of the two nested loops.
RECURSIVE pairsFrom(_, _, _)
pairsFrom(i, j, n) ==
    IF i >= n THEN << >>
    ELSE IF j > n THEN pairsFrom(i + 1, i + 2, n)
    ELSE << <<i, j>> >> \o pairsFrom(i, j + 1, n)

pairs(n) == pairsFrom(1, 2, n)

\* The forces of one update, pair by pair, from the positions and charges
\* of objs (applyForce changes neither).
pairForces(objs) ==
    LET ps == pairs(Len(objs))
    IN  [k \in 1..Len(ps) |->
            LET fA == forceOnA(objs[ps[k][1]], objs[ps[k][2]])
            IN  [i |-> ps[k][1], j |-> ps[k][2], onA |-> fA, onB |-> forceOnB(fA)]]

\* objs after objA.applyForce(forceOnA); objB.applyForce(forceOnB) for the
\* first k pairs.
RECURSIVE applyPairForces(_, _, _)
applyPairForces(objs, forces, k) ==
    IF k = 0 THEN objs
    ELSE LET prev == applyPairForces(objs, forces, k - 1)
             f    == forces[k]
             a    == applyForce(prev[f.i], f.onA)
             b    == applyForce(prev[f.j], f.onB)
         IN  [prev EXCEPT ![f.i] = a, ![f.j] = b]

\* Phase 2 of update: every pair force applied.
computeForces(objs) ==
    LET forces == pairForces(objs)
    IN  applyPairForces(objs, forces, Len(forces))

\* obj.updatePhysics(dt, friction) for every object (before resolveBounds).
integrated(objs, dt, friction) ==
    [i \in 1..Len(objs) |-> updatePhysics(objs[i], dt, friction)]

\* Phase 3 of update for the first k objects, as the forEach runs it:
\* obj.updatePhysics(dt, friction) and then resolveBounds(obj), one object
\* after the other.
RECURSIVE updateKinematics(_, _, _, _, _)
updateKinematics(objs, bounds, friction, dt, k) ==
    IF k = 0 THEN objs
    ELSE LET prev == updateKinematics(objs, bounds, friction, dt, k - 1)
             obj  == updatePhysics(prev[k], dt, friction)
         IN  [prev EXCEPT ![k] = resolveBounds(obj, bounds)]

\* update whose forces on an object are computed right before that object
\* moves, from the positions the objects before it have already moved to.
RECURSIVE staggered(_, _, _, _, _)
staggered(objs, bounds, friction, dt, k) ==
    IF k = 0 THEN objs
    ELSE LET prev == staggered(objs, bounds, friction, dt, k - 1)
             obj  == updatePhysics(computeForces(prev)[k], dt, friction)
         IN  [prev EXCEPT ![k] = resolveBounds(obj, bounds)]

update_Staggered(objs, bounds, friction, dt) ==
    staggered(objs, bounds, friction, dt, Len(objs))

\* update that samples the trail after resolveBounds: an entry appended by
\* this call holds the clamped position.
update_TrailAfterBounds(objs, bounds, friction, dt) ==
    LET forced == computeForces(objs)
    IN  [i \in 1..Len(objs) |->
            LET moved   == updatePhysics(forced[i], dt, friction)
                clamped == resolveBounds(moved, bounds)
                sampled == /\ ~forced[i].isLocked
                           /\ forced[i].trailTimer + 1 >= TRAIL_UPDATE_FREQ
            IN  IF sampled
                THEN [clamped EXCEPT !.trail[Len(clamped.trail)] = clamped.position]
                ELSE clamped]

\* update(dt): every pair force, then the kinematics object by object.
update(objs, bounds, friction, dt) ==
    updateKinematics(computeForces(objs), bounds, friction, dt, Len(objs))

\* separationDir without the default for a zero direction.
separationDir_NoDefault(objA, objB) ==
    normalize(subtract(objB.position, objA.position))

\* dir of setDistance: the current alignment, or (1, 0) when it is zero.
separationDir(objA, objB) ==
    LET dir == normalize(subtract(objB.position, objA.position))
    IN  IF magnitude(dir) = 0 THEN Vec(Scale, 0) ELSE dir

\* placed with each particle moved the whole distance from the centre.
placed_FullOffset(objs, dist) ==
    LET objA   == objs[1]
        objB   == objs[2]
        center == multiply(add(objA.position, objB.position), 1, 2)
        offset == multiply(separationDir(objA, objB), dist, Scale)
    IN  [objs EXCEPT
           ![1] = [objA EXCEPT !.position = subtract(center, offset),
                               !.velocity = zero, !.acceleration = zero],
           ![2] = [objB EXCEPT !.position = add(center, offset),
                               !.velocity = zero, !.acceleration = zero]]

\* The first two objects as setDistance places them, before resolveBounds.
placed(objs, dist) ==
    LET objA     == objs[1]
        objB     == objs[2]
        center   == multiply(add(objA.position, objB.position), 1, 2)
        halfDist == DivR(dist, 2)
        dir      == separationDir(objA, objB)
        offset   == multiply(dir, halfDist, Scale)
    IN  [objs EXCEPT
           ![1] = [objA EXCEPT !.position = subtract(center, offset),
                               !.velocity = zero, !.acceleration = zero],
           ![2] = [objB EXCEPT !.position = add(center, offset),
                               !.velocity = zero, !.acceleration = zero]]

\* setDistance without the closing resolveBounds.
setDistance_NoResolve(objs, bounds, dist) ==
    IF Len(objs) < 2 THEN objs ELSE placed(objs, dist)

setDistance(objs, bounds, dist) ==
    IF Len(objs) < 2 THEN objs
    ELSE LET p == placed(objs, dist)
         IN  [p EXCEPT ![1] = resolveBounds(p[1], bounds),
                       ![2] = resolveBounds(p[2], bounds)]

\* ------------------------------------------------------------ state

VARIABLES
    objects,       \* PhysicsEngine.objects: the particles, in creation order
    friction,      \* PhysicsEngine.friction
    bounds,        \* PhysicsEngine.bounds
    calls,         \* per particle: updatePhysics calls since it was created
    instances,     \* every ChargedObject constructed, and those objects holds
    grounding,     \* handleGround's intervals, and the charges of replaced instances
    last,          \* the last operation: its name, inputs and intermediate values
    steps          \* operations run so far

vars == <<objects, friction, bounds, calls, instances, grounding, last, steps>>

Px(n) == n * Scale

Size(w, h) == [width |-> Px(w), height |-> Px(h)]

\* Per particle: the updatePhysics calls made on it, those made while it was
\* unlocked, and those made since its last reset(x, y).
NoCalls(objs) ==
    [i \in 1..Len(objs) |-> [all |-> 0, unlocked |-> 0, sinceReset |-> 0]]

\* The instances after `objs` were constructed and stored in objects:
\* created lists the id of every instance in the order of construction,
\* held the instances (indices of created) in the order objects holds them.
Constructed(before, objs) ==
    [ created |-> before \o [k \in 1..Len(objs) |-> objs[k].id],
      held    |-> [k \in 1..Len(objs) |-> Len(before) + k] ]

\* What `last` records of an operation: the objects and bounds it started
\* from, and for an update the pair forces and the objects between
\* updatePhysics and resolveBounds.
Record(op, a, b, forces, mid) ==
    [ op |-> op, a |-> a, b |-> b, pre |-> objects, preBounds |-> bounds,
      preFriction |-> friction, forces |-> forces, mid |-> mid ]

\* No interval set, no instance replaced.  An interval is the closure of
\* one handleGround call: the index it was called with, the instance obj it
\* captured, and whether it still runs (until clearInterval).  released
\* lists, by instance, the charge of each instance objects no longer holds.
NoGrounding == [intervals |-> << >>, released |-> << >>]

\* new PhysicsEngine()
Init ==
    /\ bounds = Size(800, 600)
    /\ objects = initializeDefault(Size(800, 600))
    /\ friction = defaultFriction
    /\ calls = NoCalls(objects)
    /\ instances = Constructed(<< >>, objects)
    /\ grounding = NoGrounding
    /\ last = [ op |-> "new", a |-> 0, b |-> 0, pre |-> << >>,
                preBounds |-> Size(800, 600), preFriction |-> defaultFriction,
                forces |-> << >>, mid |-> << >> ]
    /\ steps = 0

\* ------------------------------------------------------------ operations

\* engine.update(dt), the frame loop's call.
Update(dt) ==
    /\ objects' = update(objects, bounds, friction, dt)
    /\ calls' = [i \in 1..Len(objects) |->
                    [ all |-> calls[i].all + 1,
                      unlocked |-> calls[i].unlocked
                                     + (IF objects[i].isLocked THEN 0 ELSE 1),
                      sinceReset |-> calls[i].sinceReset + 1 ]]
    /\ last' = Record("update", dt, 0, pairForces(objects),
                      integrated(computeForces(objects), dt, friction))
    /\ UNCHANGED <<friction, bounds, instances, grounding>>

\* engine.initializeDefault(), handleReset's call.
InitializeDefault ==
    /\ objects' = initializeDefault(bounds)
    /\ friction' = defaultFriction
    /\ calls' = NoCalls(objects')
    /\ instances' = Constructed(instances.created, objects')
    /\ grounding' = [grounding EXCEPT
                        !.released = @ \o [k \in 1..Len(objects) |-> objects[k].charge]]
    /\ last' = Record("initializeDefault", 0, 0, << >>, << >>)
    /\ UNCHANGED bounds

\* engine.resize(w, h), handleResize's call.
Resize(size) ==
    /\ objects' = resize(objects, bounds, size.width, size.height)
    /\ bounds' = size
    /\ last' = Record("resize", size.width, size.height, << >>, << >>)
    /\ UNCHANGED <<friction, calls, instances, grounding>>

\* engine.setDistance(dist), the Separation slider's call.
SetDistance(dist) ==
    /\ objects' = setDistance(objects, bounds, dist)
    /\ last' = Record("setDistance", dist, 0, << >>,
                      IF Len(objects) < 2 THEN objects ELSE placed(objects, dist))
    /\ UNCHANGED <<friction, bounds, calls, instances, grounding>>

\* obj.charge = v, a Charge slider's write.
SetCharge(i, q) ==
    /\ objects' = [objects EXCEPT ![i].charge = q]
    /\ last' = Record("charge", i, q, << >>, << >>)
    /\ UNCHANGED <<friction, bounds, calls, instances, grounding>>

\* obj.mass = v, a Mass slider's write.
SetMass(i, m) ==
    /\ objects' = [objects EXCEPT ![i].mass = m]
    /\ last' = Record("mass", i, m, << >>, << >>)
    /\ UNCHANGED <<friction, bounds, calls, instances, grounding>>

\* engine.friction = v, the Friction slider's write.
SetFriction(f) ==
    /\ friction' = f
    /\ last' = Record("friction", f, 0, << >>, << >>)
    /\ UNCHANGED <<objects, bounds, calls, instances, grounding>>

\* obj.isLocked = b, a write to the public lock flag.
SetLocked(i, b) ==
    /\ objects' = [objects EXCEPT ![i].isLocked = b]
    /\ last' = Record("isLocked", i, IF b THEN 1 ELSE 0, << >>, << >>)
    /\ UNCHANGED <<friction, bounds, calls, instances, grounding>>

\* obj.reset(x, y), a caller's call of the public method.
Reset(i, pt) ==
    /\ objects' = [objects EXCEPT ![i] = reset(@, pt.x, pt.y)]
    /\ calls' = [calls EXCEPT ![i].sinceReset = 0]
    /\ last' = Record("reset", i, 0, << >>, <<pt>>)
    /\ UNCHANGED <<friction, bounds, instances, grounding>>

\* Whether objects holds instance n, and where.
Held(n) == \E k \in 1..Len(objects) : instances.held[k] = n

SlotOf(n) == CHOOSE k \in 1..Len(objects) : instances.held[k] = n

\* obj.charge of instance n, held or replaced.
ChargeOf(n) ==
    IF Held(n) THEN objects[SlotOf(n)].charge ELSE grounding.released[n]

\* The charge one run of the interval callback leaves: 0 below 0.1, else
\* charge * 0.8.
grounded(charge) ==
    IF Abs(charge) < ChargeScale \div 10 THEN 0 ELSE MulDiv(charge, 8, 10)

\* handleGround(index): captures engine.objects[index] and sets the interval.
Ground(index) ==
    /\ index \in 1..Len(objects)
    /\ grounding' = [grounding EXCEPT
                        !.intervals = Append(@, [ index   |-> index,
                                                  obj     |-> instances.held[index],
                                                  running |-> TRUE ])]
    /\ last' = Record("ground", index, 0, << >>, << >>)
    /\ UNCHANGED <<objects, friction, bounds, calls, instances>>

\* One run of interval t's callback whose writes go to whatever particle
\* engine.objects[index] holds now, not to the captured instance.
Tick_ActsOnSlot(t) ==
    /\ t \in 1..Len(grounding.intervals)
    /\ grounding.intervals[t].running
    /\ LET slot   == grounding.intervals[t].index
           charge == objects[slot].charge
       IN  /\ objects' = [objects EXCEPT ![slot].charge = grounded(charge)]
           /\ grounding' = [grounding EXCEPT
                               !.intervals[t].running =
                                   ~(Abs(charge) < ChargeScale \div 10)]
           /\ last' = Record("tick", t, charge, << >>, << >>)
    /\ UNCHANGED <<friction, bounds, calls, instances, steps>>

\* One run of interval t's callback, every 50 ms until clearInterval: it
\* reads and writes the charge of the instance it captured.
Tick(t) ==
    /\ t \in 1..Len(grounding.intervals)
    /\ grounding.intervals[t].running
    /\ LET obj    == grounding.intervals[t].obj
           charge == ChargeOf(obj)
           after  == [grounding EXCEPT
                         !.intervals[t].running =
                             ~(Abs(charge) < ChargeScale \div 10)]
       IN  /\ IF Held(obj)
              THEN /\ objects' = [objects EXCEPT
                                     ![SlotOf(obj)].charge = grounded(charge)]
                   /\ grounding' = after
              ELSE /\ objects' = objects
                   /\ grounding' = [after EXCEPT
                                       !.released[obj] = grounded(charge)]
           /\ last' = Record("tick", t, charge, << >>, << >>)
    /\ UNCHANGED <<friction, bounds, calls, instances, steps>>

\* ------------------------------------------------------------ inputs

MaxOps == 3

\* Time steps in milliseconds: a 60 Hz frame, and a step long enough for
\* the friction factor to reach its floor.
DtSet == {17, 1000}

\* Canvas sizes in pixels: wider than the default, smaller than it, and
\* narrower than a particle's diameter.
SizeSet == {Size(1000, 600), Size(400, 300), Size(30, 600)}

\* Requested separations in pixels.
DistSet == {Px(0), Px(60), Px(500)}

ChargeSet == {0, 5 * ChargeScale, -5 * ChargeScale}

\* Masses: the slider's ends, 0.1 and 5.0.
MassSet == {MassScale \div 10, 5 * MassScale}

FrictionSet == {0, FrictionScale \div 10}

Idx == 1..Len(objects)

\* One more operation, while fewer than `limit` have run.
Bounded(limit) == steps < limit /\ steps' = steps + 1

Next ==
    \/ \E dt \in DtSet : Bounded(MaxOps) /\ Update(dt)
    \/ Bounded(MaxOps) /\ InitializeDefault
    \/ \E size \in SizeSet : Bounded(MaxOps) /\ Resize(size)
    \/ \E dist \in DistSet : Bounded(MaxOps) /\ SetDistance(dist)
    \/ \E i \in Idx : \E q \in ChargeSet : Bounded(MaxOps) /\ SetCharge(i, q)
    \/ \E i \in Idx : \E m \in MassSet : Bounded(MaxOps) /\ SetMass(i, m)
    \/ \E f \in FrictionSet : Bounded(MaxOps) /\ SetFriction(f)
    \/ \E i \in Idx : \E b \in BOOLEAN : Bounded(MaxOps) /\ SetLocked(i, b)

Spec == Init /\ [][Next]_vars

\* A short run of frames with a few interventions between them: resizes
\* and writes of the lock flag.
MaxRunFrames == 6
MaxRunEdits == 2

Frames == calls[1].all

Edits == steps - Frames

NextRun ==
    \/ Frames < MaxRunFrames /\ Bounded(MaxRunFrames + MaxRunEdits) /\ Update(17)
    \/ \E size \in SizeSet :
          Edits < MaxRunEdits /\ Bounded(MaxRunFrames + MaxRunEdits) /\ Resize(size)
    \/ \E i \in Idx : \E b \in BOOLEAN :
          Edits < MaxRunEdits /\ Bounded(MaxRunFrames + MaxRunEdits) /\ SetLocked(i, b)

SpecRun == Init /\ [][NextRun]_vars

\* A long run of frames, long enough for a trail to fill and overflow,
\* with the first particle's lock flag flipped a few times early on.
MaxFrames == 262
MaxToggles == 2
ToggleWindow == 6

NextTrail ==
    \/ Frames < MaxFrames /\ Bounded(MaxFrames + MaxToggles) /\ Update(17)
    \/ /\ Edits < MaxToggles
       /\ Frames < ToggleWindow
       /\ Bounded(MaxFrames + MaxToggles)
       /\ SetLocked(1, ~objects[1].isLocked)

SpecTrail == Init /\ [][NextTrail]_vars

\* An engine whose two particles a caller built with new ChargedObject at
\* positions of its choice (side by side, stacked, diagonal, closer than
\* MIN_DISTANCE, coincident), then a few operations.
MaxAnyOps == 2

PlaceSet ==
    { Vec(Px(200), Px(150)), Vec(Px(230), Px(150)), Vec(Px(220), Px(170)),
      Vec(Px(200), Px(250)), Vec(Px(350), Px(270)), Vec(Px(30), Px(150)) }

AnySizeSet == {Size(800, 600), Size(400, 300)}

InitAny ==
    /\ bounds \in AnySizeSet
    /\ \E pA \in PlaceSet : \E pB \in PlaceSet :
       \E qA \in ChargeSet : \E qB \in ChargeSet :
          objects = << ChargedObject("obj1", pA.x, pA.y, MassScale, qA),
                       ChargedObject("obj2", pB.x, pB.y, MassScale, qB) >>
    /\ friction = defaultFriction
    /\ calls = NoCalls(objects)
    /\ instances = Constructed(<< >>, objects)
    /\ grounding = NoGrounding
    /\ last = [ op |-> "new", a |-> 0, b |-> 0, pre |-> << >>,
                preBounds |-> bounds, preFriction |-> defaultFriction,
                forces |-> << >>, mid |-> << >> ]
    /\ steps = 0

NextAny ==
    \/ Bounded(MaxAnyOps) /\ Update(17)
    \/ \E dist \in DistSet : Bounded(MaxAnyOps) /\ SetDistance(dist)

SpecAny == InitAny /\ [][NextAny]_vars

\* A run of frames with a few reset(x, y) calls on either particle between
\* them.
MaxResetFrames == 7
MaxResets == 2

ResetSet == {Vec(Px(100), Px(100)), Vec(Px(400), Px(300))}

NextReset ==
    \/ Frames < MaxResetFrames
          /\ Bounded(MaxResetFrames + MaxResets) /\ Update(17)
    \/ \E i \in Idx : \E pt \in ResetSet :
          Edits < MaxResets /\ Bounded(MaxResetFrames + MaxResets) /\ Reset(i, pt)

SpecReset == Init /\ [][NextReset]_vars

\* An engine whose objects a caller filled with one, two or three particles
\* built with new ChargedObject, some of them outside the canvas, then a
\* few operations.
MaxManyOps == 2

ManySizeSet == {Size(800, 600), Size(400, 300), Size(30, 600)}

ManyChargeSet == {5 * ChargeScale, -5 * ChargeScale}

FirstPlaceSet == {Vec(0, 0), Vec(Px(200), Px(150))}

SecondPlaceSet == {Vec(Px(100), 0), Vec(Px(200), Px(150))}

ThirdPlace == Vec(Px(390), Px(290))

InitMany ==
    /\ bounds \in ManySizeSet
    /\ \E n \in 1..3 :
       \E pA \in FirstPlaceSet : \E pB \in SecondPlaceSet :
       \E qA \in ManyChargeSet : \E qB \in ManyChargeSet :
       \E qC \in ManyChargeSet :
          objects = SubSeq(
              << ChargedObject("obj1", pA.x, pA.y, MassScale, qA),
                 ChargedObject("obj2", pB.x, pB.y, MassScale, qB),
                 ChargedObject("obj3", ThirdPlace.x, ThirdPlace.y, MassScale, qC) >>,
              1, n)
    /\ friction \in {0, defaultFriction}
    /\ calls = NoCalls(objects)
    /\ instances = Constructed(<< >>, objects)
    /\ grounding = NoGrounding
    /\ last = [ op |-> "new", a |-> 0, b |-> 0, pre |-> << >>,
                preBounds |-> bounds, preFriction |-> friction,
                forces |-> << >>, mid |-> << >> ]
    /\ steps = 0

NextMany ==
    \/ \E dt \in DtSet : Bounded(MaxManyOps) /\ Update(dt)
    \/ \E dist \in DistSet : Bounded(MaxManyOps) /\ SetDistance(dist)

SpecMany == InitMany /\ [][NextMany]_vars

\* A run of frames of an engine whose particles a caller built, some of
\* them outside the canvas or pushed against its walls.
MaxClampFrames == 6

NextClamp == Frames < MaxClampFrames /\ Bounded(MaxClampFrames) /\ Update(17)

SpecClamp == InitMany /\ [][NextClamp]_vars

\* Ground clicks and resets, and the intervals' callbacks running between
\* and after them.  An interval that is set runs its callback again and
\* again until it is cleared.
MaxGrounds == 1
MaxGroundResets == 1

GroundResets == (Len(instances.created) \div 2) - 1

NextGround ==
    \/ \E index \in Idx :
          /\ Len(grounding.intervals) < MaxGrounds
          /\ Bounded(MaxGrounds + MaxGroundResets)
          /\ Ground(index)
    \/ /\ GroundResets < MaxGroundResets
       /\ Bounded(MaxGrounds + MaxGroundResets)
       /\ InitializeDefault
    \/ \E t \in 1..MaxGrounds : Tick(t)

SpecGround ==
    /\ Init
    /\ [][NextGround]_vars
    /\ \A t \in 1..MaxGrounds : WF_vars(Tick(t))

\* ------------------------------------------------------------ claims

IsUpdate == last.op = "update"

InBounds(obj, b) ==
    /\ obj.radius <= obj.position.x
    /\ obj.position.x <= b.width - obj.radius
    /\ obj.radius <= obj.position.y
    /\ obj.position.y <= b.height - obj.radius

\* The canvas is at least one particle diameter wide and high.
Roomy(obj, b) == b.width >= 2 * obj.radius /\ b.height >= 2 * obj.radius

\* C1 as stated: after an update, for any bounds, every particle's position
\* lies within [radius, width - radius] x [radius, height - radius].
C1_AnyBounds ==
    IsUpdate => \A i \in Idx : InBounds(objects[i], bounds)

\* C1, amended: after an update every particle's position lies within
\* [radius, width - radius] x [radius, height - radius] provided the bounds
\* are at least one particle diameter wide and high; whatever the bounds,
\* each coordinate is radius, extent - radius, or the value updatePhysics
\* left.
C1_BoundaryInvariant ==
    IsUpdate =>
        \A i \in Idx :
            LET obj == objects[i]
                mid == last.mid[i]
            IN  /\ Roomy(obj, bounds) => InBounds(obj, bounds)
                /\ obj.position.x \in
                     {obj.radius, bounds.width - obj.radius, mid.position.x}
                /\ obj.position.y \in
                     {obj.radius, bounds.height - obj.radius, mid.position.y}

\* An update in a roomy canvas that carried a particle past a wall, so
\* that resolveBounds moved it back.
C1_Witness ==
    /\ IsUpdate
    /\ \E i \in Idx :
          /\ Roomy(objects[i], bounds)
          /\ ~InBounds(last.mid[i], bounds)

\* C2: updatePhysics on a locked particle leaves velocity and acceleration
\* zero and the position as it was before the update's forces were applied.
C2_LockedParticle ==
    IsUpdate =>
        \A i \in Idx :
            last.pre[i].isLocked =>
                /\ last.mid[i].velocity = zero
                /\ last.mid[i].acceleration = zero
                /\ last.mid[i].position = last.pre[i].position

\* An update with non-zero forces on a particle that was locked while
\* moving.
C2_Witness ==
    /\ IsUpdate
    /\ \E i \in Idx :
          /\ last.pre[i].isLocked
          /\ last.pre[i].velocity # zero
          /\ \E k \in 1..Len(last.forces) : last.forces[k].onA # zero

\* The trail after a sample pt is taken: appended, the oldest entry dropped
\* when there were MAX_TRAIL_LENGTH already.
Sampled(trail, pt) ==
    IF Len(trail) = MAX_TRAIL_LENGTH
    THEN [k \in 1..MAX_TRAIL_LENGTH |->
             IF k < MAX_TRAIL_LENGTH THEN trail[k + 1] ELSE pt]
    ELSE [k \in 1..(Len(trail) + 1) |-> IF k <= Len(trail) THEN trail[k] ELSE pt]

TrailBound == \A i \in Idx : Len(objects[i].trail) <= MAX_TRAIL_LENGTH

\* C3 as stated: a trail holds at most 50 entries, oldest first; and an
\* update changes a particle's trail only on every 5th updatePhysics call
\* on that particle, by appending the position and, beyond 50 entries,
\* dropping the oldest.
C3_EveryFifthCall ==
    /\ TrailBound
    /\ IsUpdate =>
          \A i \in Idx :
              /\ objects[i].trail = last.mid[i].trail
              /\ last.mid[i].trail # last.pre[i].trail =>
                    /\ calls[i].all % TRAIL_UPDATE_FREQ = 0
                    /\ last.mid[i].trail =
                          Sampled(last.pre[i].trail, last.mid[i].position)

\* C3, amended: a trail holds at most 50 entries, oldest first; an update
\* appends the position to a particle's trail exactly on every 5th
\* updatePhysics call made while the particle is unlocked (calls on a locked
\* particle are not counted), dropping the oldest entry beyond 50, and
\* leaves the trail alone on every other call.
C3_TrailSampling ==
    /\ TrailBound
    /\ IsUpdate =>
          \A i \in Idx :
              /\ objects[i].trail = last.mid[i].trail
              /\ IF /\ ~last.pre[i].isLocked
                    /\ calls[i].unlocked % TRAIL_UPDATE_FREQ = 0
                 THEN last.mid[i].trail =
                         Sampled(last.pre[i].trail, last.mid[i].position)
                 ELSE last.mid[i].trail = last.pre[i].trail

\* An update that sampled into a full trail, dropping its oldest entry, on
\* a particle that had been locked during some earlier update.
C3_Witness ==
    /\ IsUpdate
    /\ Len(last.pre[1].trail) = MAX_TRAIL_LENGTH
    /\ objects[1].trail # last.pre[1].trail
    /\ objects[1].trail[1] = last.pre[1].trail[2]
    /\ calls[1].all > calls[1].unlocked

\* pt moved by half of (dw, dh).
MovedByHalf(before, after, dw, dh) ==
    /\ 2 * (after.x - before.x) = dw
    /\ 2 * (after.y - before.y) = dh

\* C9: resize(w, h) from bounds (w0, h0) adds ((w - w0)/2, (h - h0)/2) to
\* every particle's position and to every trail point, once, changes
\* nothing else of a particle, and sets the bounds to (w, h); from (800, 600)
\* to (1000, 600) every x grows by 100 and every y stays.
C9_ResizeShifts ==
    last.op = "resize" =>
        LET dw == last.a - last.preBounds.width
            dh == last.b - last.preBounds.height
        IN  /\ bounds = [width |-> last.a, height |-> last.b]
            /\ Len(objects) = Len(last.pre)
            /\ \A i \in Idx :
                  LET old == last.pre[i]
                      new == objects[i]
                  IN  /\ MovedByHalf(old.position, new.position, dw, dh)
                      /\ Len(new.trail) = Len(old.trail)
                      /\ \A k \in 1..Len(old.trail) :
                            MovedByHalf(old.trail[k], new.trail[k], dw, dh)
                      /\ new = [old EXCEPT !.position = new.position,
                                           !.trail = new.trail]
                      /\ (last.preBounds = Size(800, 600) /\ bounds = Size(1000, 600))
                            => /\ new.position.x = old.position.x + Px(100)
                               /\ new.position.y = old.position.y

\* A resize from (800, 600) to (1000, 600) of particles that have moved
\* and carry a trail point.
C9_Witness ==
    /\ last.op = "resize"
    /\ last.preBounds = Size(800, 600)
    /\ bounds = Size(1000, 600)
    /\ \A i \in Idx : Len(last.pre[i].trail) > 0

\* C10: initializeDefault leaves exactly two particles at (cx - s/2, cy) and
\* (cx + s/2, cy), (cx, cy) the centre of the bounds and s the smaller
\* dimension times 0.6 clamped to [150, 300]; mass 1, charges +5 and -5,
\* no velocity or acceleration, unlocked, empty trail; friction 0.01.
C10_InitializeDefault ==
    last.op = "initializeDefault" =>
        LET minDim == IF bounds.width < bounds.height
                      THEN bounds.width ELSE bounds.height
            s10 == IF 6 * minDim < 10 * Px(150) THEN 10 * Px(150)
                   ELSE IF 6 * minDim > 10 * Px(300) THEN 10 * Px(300)
                   ELSE 6 * minDim
        IN  /\ Len(objects) = 2
            /\ 20 * objects[1].position.x = 10 * bounds.width - s10
            /\ 20 * objects[2].position.x = 10 * bounds.width + s10
            /\ objects[1].charge = 5 * ChargeScale
            /\ objects[2].charge = -5 * ChargeScale
            /\ \A i \in 1..2 :
                  /\ 2 * objects[i].position.y = bounds.height
                  /\ objects[i].mass = MassScale
                  /\ objects[i].velocity = zero
                  /\ objects[i].acceleration = zero
                  /\ ~objects[i].isLocked
                  /\ objects[i].trail = << >>
            /\ 100 * friction = FrictionScale
            /\ bounds = last.preBounds

\* initializeDefault in a 400 x 300 canvas (s = 180, inside the clamp) from
\* a state with another friction, a locked particle and other positions.
C10_Witness ==
    /\ last.op = "initializeDefault"
    /\ bounds = Size(400, 300)
    /\ \/ last.preFriction # defaultFriction
       \/ \E i \in 1..Len(last.pre) : last.pre[i].isLocked

\* |A.position - B.position|
Distance(objA, objB) == magnitude(subtract(objB.position, objA.position))

\* Two lengths equal up to the rounding of the fixed-point arithmetic: a
\* twentieth of a pixel plus a thousandth of the length.
DistanceTolerance(d) == (Scale \div 20) + (d \div Scale)

Near(d, e) == Abs(d - e) <= DistanceTolerance(e)

IsSetDistance == last.op = "setDistance" /\ Len(last.pre) >= 2

\* C4 as stated: right after setDistance(d) the first two particles are d
\* apart and at rest, for every d and every state.
C4_AlwaysApart ==
    IsSetDistance =>
        /\ Near(Distance(objects[1], objects[2]), last.a)
        /\ objects[1].velocity = zero
        /\ objects[2].velocity = zero

\* C4, amended: right after setDistance(d) the first two particles are at
\* rest, and they are d apart whenever the symmetric placement lies within
\* the bounds, that is, when the closing resolveBounds moves neither
\* particle; otherwise resolveBounds clamps them into the canvas and their
\* distance need not be d.
C4_SetDistance ==
    IsSetDistance =>
        /\ objects[1].velocity = zero
        /\ objects[2].velocity = zero
        /\ (objects[1].position = last.mid[1].position
              /\ objects[2].position = last.mid[2].position)
             => Near(Distance(objects[1], objects[2]), last.a)

\* setDistance(500) on two moving particles on a diagonal, placed within
\* the bounds.
C4_Witness ==
    /\ IsSetDistance
    /\ last.a = Px(500)
    /\ last.pre[1].velocity # zero
    /\ last.pre[2].velocity # zero
    /\ last.pre[1].position.x # last.pre[2].position.x
    /\ last.pre[1].position.y # last.pre[2].position.y
    /\ objects[1].position = last.mid[1].position
    /\ objects[2].position = last.mid[2].position

Coincident(objs) == objs[1].position = objs[2].position

Unclamped ==
    /\ objects[1].position = last.mid[1].position
    /\ objects[2].position = last.mid[2].position

\* C5 as stated: setDistance(d) on two coincident particles leaves them on
\* one horizontal line, A on the left, their x coordinates d apart.
C5_AlwaysHorizontal ==
    (IsSetDistance /\ Coincident(last.pre)) =>
        /\ objects[1].position.y = objects[2].position.y
        /\ objects[2].position.x - objects[1].position.x = last.a

\* C5, amended: setDistance(d) on two coincident particles uses the
\* direction (1, 0): it places them on one horizontal line, A at the centre
\* minus d/2 and B at the centre plus d/2, every coordinate a number; after
\* the closing resolveBounds they still share their y coordinate, and their
\* x coordinates differ by d, A on the left, when resolveBounds moved
\* neither particle.
C5_CoincidentDirection ==
    (IsSetDistance /\ Coincident(last.pre)) =>
        /\ last.mid[2].position.x - last.mid[1].position.x = last.a
        /\ 2 * (last.pre[1].position.x - last.mid[1].position.x) = last.a
        /\ last.mid[1].position.y = last.pre[1].position.y
        /\ last.mid[2].position.y = last.pre[2].position.y
        /\ objects[1].position.y = objects[2].position.y
        /\ Unclamped =>
              objects[2].position.x - objects[1].position.x = last.a
        /\ \A i \in 1..2 :
              /\ objects[i].position.x \in Int
              /\ objects[i].position.y \in Int

\* setDistance(500) on two coincident particles, placed within the bounds.
C5_Witness ==
    /\ IsSetDistance
    /\ Coincident(last.pre)
    /\ last.a = Px(500)
    /\ Unclamped

\* f is not the zero vector and points the way of r: no component against
\* r, none across it, and the larger component of f along the larger
\* component of r.
PointsAlong(f, r) ==
    /\ f # zero
    /\ Sgn(f.x) \in {0, Sgn(r.x)}
    /\ Sgn(f.y) \in {0, Sgn(r.y)}
    /\ Abs(r.x) >= Abs(r.y) => Abs(f.x) >= Abs(f.y)
    /\ Abs(r.y) >= Abs(r.x) => Abs(f.y) >= Abs(f.x)

\* From the first particle of pair f to the second, before the update.
PairVector(f) == subtract(last.pre[f.j].position, last.pre[f.i].position)

PairCharges(f) == last.pre[f.i].charge * last.pre[f.j].charge

Opposite(r) == Vec(-r.x, -r.y)

PairIndex == 1..Len(last.forces)

\* What C6 says of a pair of unlike or like charges.
Directed(f) ==
    /\ PairCharges(f) < 0 =>
          /\ PointsAlong(f.onA, PairVector(f))
          /\ PointsAlong(f.onB, Opposite(PairVector(f)))
    /\ PairCharges(f) > 0 =>
          /\ PointsAlong(f.onA, Opposite(PairVector(f)))
          /\ PointsAlong(f.onB, PairVector(f))

Neutral(f) == PairCharges(f) = 0 => (f.onA = zero /\ f.onB = zero)

\* C6 as stated: at any positions, unlike charges pull each particle
\* strictly toward the other, like charges push each strictly away, and a
\* zero charge product gives exactly the zero force.
C6_AnyPositions ==
    IsUpdate =>
        \A k \in PairIndex : Directed(last.forces[k]) /\ Neutral(last.forces[k])

\* C6, amended: for two particles at distinct positions, unlike charges
\* pull each particle strictly toward the other and like charges push each
\* strictly away; a zero charge product gives exactly the zero force; and
\* two particles at the same position exert the zero force on each other
\* whatever their charges.
C6_ForceDirection ==
    IsUpdate =>
        \A k \in PairIndex :
            LET f == last.forces[k]
            IN  /\ PairVector(f) # zero => Directed(f)
                /\ Neutral(f)
                /\ PairVector(f) = zero => (f.onA = zero /\ f.onB = zero)

\* An update of two unlike charges on a diagonal.
C6_Witness ==
    /\ IsUpdate
    /\ \E k \in PairIndex :
          /\ PairCharges(last.forces[k]) < 0
          /\ PairVector(last.forces[k]).x # 0
          /\ PairVector(last.forces[k]).y # 0

\* C7: in every update the force handed to B.applyForce is the negation of
\* the force handed to A.applyForce, component by component.
C7_ThirdLaw ==
    IsUpdate =>
        \A k \in PairIndex :
            /\ last.forces[k].onB.x = -last.forces[k].onA.x
            /\ last.forces[k].onB.y = -last.forces[k].onA.y

\* An update whose force on A has a non-zero x and a non-zero y component.
C7_Witness ==
    /\ IsUpdate
    /\ \E k \in PairIndex :
          /\ last.forces[k].onA.x # 0
          /\ last.forces[k].onA.y # 0

\* K * |qA * qB| / 60^2, in counts of 1/Scale.
ForceAtFloor(f) ==
    DivR((K_COULOMB \div (ChargeScale * ChargeScale)) * Abs(PairCharges(f)) * Scale,
         MIN_DISTANCE * MIN_DISTANCE)

\* Two forces equal up to the rounding of the fixed-point arithmetic: five
\* counts plus half a percent.
ForceNear(m, e) == Abs(m - e) <= 5 + (e \div 200)

Closer(f) == magnitude(PairVector(f)) < MIN_DISTANCE * Scale

\* C8 as stated: for two particles closer than MIN_DISTANCE, distance 0
\* included, the applied force has the magnitude K * |qA * qB| / 60^2.
C8_FloorFromZero ==
    IsUpdate =>
        \A k \in PairIndex :
            Closer(last.forces[k]) =>
                ForceNear(magnitude(last.forces[k].onA), ForceAtFloor(last.forces[k]))

\* C8, amended: for two particles closer than MIN_DISTANCE but not at the
\* same position, the applied force has the magnitude K * |qA * qB| / 60^2;
\* at distance 0 the applied force is the zero vector.
C8_DistanceFloor ==
    IsUpdate =>
        \A k \in PairIndex :
            LET f == last.forces[k]
            IN  Closer(f) =>
                   IF PairVector(f) = zero THEN f.onA = zero
                   ELSE ForceNear(magnitude(f.onA), ForceAtFloor(f))

\* An update of two charged particles on a diagonal, closer than
\* MIN_DISTANCE.
C8_Witness ==
    /\ IsUpdate
    /\ \E k \in PairIndex :
          /\ Closer(last.forces[k])
          /\ PairCharges(last.forces[k]) # 0
          /\ PairVector(last.forces[k]).x # 0
          /\ PairVector(last.forces[k]).y # 0

\* C11: reset(x, y) sets the position to (x, y), zeroes velocity and
\* acceleration, empties the trail and clears the trail sample counter, so
\* that the first trail entry after it is appended on the 5th updatePhysics
\* call that follows.
C11_ResetClearsCounter ==
    /\ last.op = "reset" =>
          LET obj == objects[last.a]
          IN  /\ obj.position = last.mid[1]
              /\ obj.velocity = zero
              /\ obj.acceleration = zero
              /\ obj.trail = << >>
              /\ obj.trailTimer = 0
    /\ IsUpdate =>
          \A i \in Idx :
              (last.pre[i].trail = << >> /\ objects[i].trail # << >>)
                  => calls[i].sinceReset = TRAIL_UPDATE_FREQ

\* Every particle objects holds carries the id its instance was constructed
\* with.
IdsKept ==
    /\ Len(instances.held) = Len(objects)
    /\ \A k \in Idx : objects[k].id = instances.created[instances.held[k]]

\* C12 as stated: a particle's id is the one it was constructed with, and
\* no two distinct instances ever constructed carry the same id.
C12_NeverReused ==
    /\ IdsKept
    /\ \A m \in 1..Len(instances.created) :
       \A n \in 1..Len(instances.created) :
           m # n => instances.created[m] # instances.created[n]

\* C12, amended: a particle's id is the one it was constructed with; the
\* particles held at one time carry distinct ids; and initializeDefault
\* constructs new instances that carry the ids 'obj1' and 'obj2' again, the
\* ids of the instances they replace.
C12_StableIds ==
    /\ IdsKept
    /\ \A m \in Idx : \A n \in Idx : m # n => objects[m].id # objects[n].id
    /\ last.op = "initializeDefault" =>
          /\ [k \in Idx |-> objects[k].id] = <<"obj1", "obj2">>
          /\ [k \in 1..Len(last.pre) |-> last.pre[k].id] = <<"obj1", "obj2">>
          /\ \A k \in Idx :
                instances.held[k] > Len(instances.created) - Len(objects)

\* A second initializeDefault after the constructor's: six instances have
\* been constructed by then.
C12_Witness ==
    /\ last.op = "initializeDefault"
    /\ Len(instances.created) >= 6

\* C13: in every state, after a write of the mass included, every
\* particle's radius is 20 + 2 * sqrt(mass) for the mass it has now.
C13_RadiusDerived ==
    \A i \in Idx : objects[i].radius = RadiusOf(objects[i].mass)

\* The scenario of C14 and one update of it: two unlocked particles of mass
\* 1 at (0, 0) and (100, 0) with charges +5 and -5, friction 0, and a time
\* step of one sixtieth of a second (17 ms).
Scenario ==
    /\ steps = 1
    /\ IsUpdate
    /\ last.a = 17
    /\ last.preFriction = 0
    /\ Len(last.pre) = 2
    /\ last.pre[1].position = Vec(0, 0)
    /\ last.pre[2].position = Vec(Px(100), 0)
    /\ last.pre[1].charge = 5 * ChargeScale
    /\ last.pre[2].charge = -5 * ChargeScale
    /\ \A i \in 1..2 : last.pre[i].mass = MassScale /\ ~last.pre[i].isLocked

\* C14: one update of the scenario leaves the two particles strictly closer
\* together than 100, both where updatePhysics moved them to and where
\* resolveBounds left them, and the force applied to the first particle
\* points along the x axis toward the second: its y component is 0.
C14_Scenario ==
    Scenario =>
        /\ Distance(objects[1], objects[2]) < Px(100)
        /\ Distance(last.mid[1], last.mid[2]) < Px(100)
        /\ last.forces[1].onA.y = 0
        /\ last.forces[1].onA.x > 0

\* The scenario after its update.
C14_Witness == Scenario /\ objects # last.pre

\* step(dt) as its three phases: every pair force applied, then every
\* particle integrated, then every particle boundary-resolved.
ThreePhase(objs, b, f, dt) ==
    LET forced == computeForces(objs)
        moved  == [i \in 1..Len(objs) |-> updatePhysics(forced[i], dt, f)]
    IN  [i \in 1..Len(objs) |-> resolveBounds(moved[i], b)]

\* C16: an update leaves the objects as the three-phase sequence does,
\* with one, two or three particles.
C16_ThreePhase ==
    IsUpdate =>
        objects = ThreePhase(last.pre, last.preBounds, last.preFriction, last.a)

\* An update of three particles with non-zero forces in which
\* resolveBounds moved the first particle back.
C16_Witness ==
    /\ IsUpdate
    /\ Len(objects) = 3
    /\ objects[1].position # last.mid[1].position
    /\ \A k \in PairIndex : last.forces[k].onA # zero
    /\ objects[3].position # last.pre[3].position

\* Half of -vel, to the rounding of the last count.
HalfReversed(vel, after) == Abs(2 * after + vel) <= 1

\* What C18 says of one axis: pos and vel before resolveBounds, pos2 and
\* vel2 after, the walls at r and at extent - r (the lower wall is tested
\* first).
AxisResolved(pos, vel, pos2, vel2, r, extent) ==
    IF pos < r
    THEN /\ pos2 = r
         /\ IF vel < 0 THEN vel2 > 0 /\ HalfReversed(vel, vel2) ELSE vel2 = vel
         /\ vel2 >= 0
    ELSE IF pos > extent - r
    THEN /\ pos2 = extent - r
         /\ IF vel > 0 THEN vel2 < 0 /\ HalfReversed(vel, vel2) ELSE vel2 = vel
         /\ vel2 <= 0
    ELSE pos2 = pos /\ vel2 = vel

\* The particles the last operation ran resolveBounds on.
ResolvedIdx ==
    IF IsUpdate THEN Idx ELSE IF IsSetDistance THEN 1..2 ELSE {}

\* C18: resolveBounds treats each axis on its own: beyond a wall the
\* position is clamped to that wall and the velocity component is
\* multiplied by -0.5 only if it pointed into that wall; within the walls
\* neither changes; so no clamped particle is left with a velocity
\* component pointing into the wall it was clamped to.
C18_ResolveBounds ==
    \A i \in ResolvedIdx :
        LET before == last.mid[i]
            after  == objects[i]
        IN  /\ AxisResolved(before.position.x, before.velocity.x,
                            after.position.x, after.velocity.x,
                            before.radius, bounds.width)
            /\ AxisResolved(before.position.y, before.velocity.y,
                            after.position.y, after.velocity.y,
                            before.radius, bounds.height)
            /\ after = [before EXCEPT !.position = after.position,
                                      !.velocity = after.velocity]

\* An update that clamped one particle at a wall it was moving into on the
\* y axis and away from on the x axis, clamped another at the far wall,
\* and left a third, moving, alone on the x axis.
C18_Witness ==
    /\ IsUpdate
    /\ \E i \in Idx :
          /\ last.mid[i].position.y < last.mid[i].radius
          /\ last.mid[i].velocity.y < 0
          /\ objects[i].velocity.y > 0
          /\ last.mid[i].position.x < last.mid[i].radius
          /\ last.mid[i].velocity.x > 0
          /\ objects[i].velocity.x = last.mid[i].velocity.x
    /\ \E j \in Idx :
          /\ last.mid[j].position.x > bounds.width - last.mid[j].radius
          /\ objects[j].position.x = bounds.width - last.mid[j].radius
    /\ \E k \in Idx :
          /\ objects[k].position.x = last.mid[k].position.x
          /\ last.mid[k].velocity.x # 0

\* C15: after construction and any sequence of operations the engine holds
\* exactly two particles, in the order they were constructed in.
C15_ExactlyTwo ==
    /\ Len(objects) = 2
    /\ Len(instances.held) = 2
    /\ instances.held[1] < instances.held[2]
    /\ objects[1].id = instances.created[instances.held[1]]
    /\ objects[2].id = instances.created[instances.held[2]]

\* Three operations, an initializeDefault among them, the last one a
\* setDistance.
C15_Witness ==
    /\ steps = 3
    /\ last.op = "setDistance"
    /\ Len(instances.created) = 4

\* v * factor + a * dt on one component, factor in counts of 1/Scale and dt
\* in milliseconds.
Advanced(v, factor, a, dt) == MulDiv(v, factor, Scale) + MulDiv(a, dt, MsPerSecond)

\* max(0, 1 - friction * dt * 60) in counts of 1/Scale.
Decay(f, dt) ==
    LET loss == DivR(f * dt * 60, (FrictionScale * MsPerSecond) \div Scale)
    IN  IF loss > Scale THEN 0 ELSE Scale - loss

\* C17: updatePhysics on an unlocked particle gives velocity' = velocity *
\* max(0, 1 - friction * dt * 60) + acceleration * dt, position' = position
\* + velocity' * dt and acceleration' = (0, 0); after every update every
\* particle's acceleration is the zero vector.
C17_Integrate ==
    IsUpdate =>
        \A i \in Idx :
            /\ objects[i].acceleration = zero
            /\ ~last.pre[i].isLocked =>
                  LET old    == last.pre[i]
                      new    == last.mid[i]
                      acc    == computeForces(last.pre)[i].acceleration
                      factor == Decay(last.preFriction, last.a)
                  IN  /\ new.velocity.x = Advanced(old.velocity.x, factor, acc.x, last.a)
                      /\ new.velocity.y = Advanced(old.velocity.y, factor, acc.y, last.a)
                      /\ new.position.x =
                            old.position.x + MulDiv(new.velocity.x, last.a, MsPerSecond)
                      /\ new.position.y =
                            old.position.y + MulDiv(new.velocity.y, last.a, MsPerSecond)
                      /\ new.acceleration = zero

\* An update of a moving, accelerated, unlocked particle under friction
\* that slows it without stopping it.
C17_Witness ==
    /\ IsUpdate
    /\ Decay(last.preFriction, last.a) \in 1..(Scale - 1)
    /\ \E i \in Idx :
          /\ ~last.pre[i].isLocked
          /\ last.pre[i].velocity # zero
          /\ computeForces(last.pre)[i].acceleration # zero
          /\ last.mid[i].position # last.pre[i].position

\* Each coordinate resolveBounds left: the wall's or the one it was given.
AtWallOrKept(after, before, b) ==
    /\ after.position.x \in
          {after.radius, b.width - after.radius, before.position.x}
    /\ after.position.y \in
          {after.radius, b.height - after.radius, before.position.y}

AtRest(obj) == obj.velocity = zero /\ obj.acceleration = zero

\* C19 as stated: after setDistance(d) both of the first two particles lie
\* within [radius, width - radius] x [radius, height - radius] and have
\* zero velocity and zero acceleration.
C19_AlwaysInside ==
    IsSetDistance =>
        \A i \in 1..2 : InBounds(objects[i], bounds) /\ AtRest(objects[i])

\* C19, amended: after setDistance(d) both of the first two particles have
\* zero velocity and zero acceleration, and lie within [radius, width -
\* radius] x [radius, height - radius] provided the bounds are at least one
\* particle diameter wide and high; whatever the bounds, each coordinate is
\* radius, extent - radius, or the one the symmetric placement gave.
C19_SetDistanceResolved ==
    IsSetDistance =>
        \A i \in 1..2 :
            /\ AtRest(objects[i])
            /\ Roomy(objects[i], bounds) => InBounds(objects[i], bounds)
            /\ AtWallOrKept(objects[i], last.mid[i], bounds)

\* setDistance on moving particles, in a roomy canvas, that placed a
\* particle outside it, so that resolveBounds moved it back.
C19_Witness ==
    /\ IsSetDistance
    /\ \A i \in 1..2 : Roomy(objects[i], bounds)
    /\ \E i \in 1..2 :
          /\ ~InBounds(last.mid[i], bounds)
          /\ last.pre[i].velocity # zero

\* C20: updatePhysics on a locked particle leaves its trail and its trail
\* timer as they were; the timer counts the calls made while unlocked since
\* the last sample, and a call on an unlocked particle samples exactly when
\* that count reaches 5.
C20_LockedNotCounted ==
    /\ \A i \in Idx :
          objects[i].trailTimer = calls[i].unlocked % TRAIL_UPDATE_FREQ
    /\ IsUpdate =>
          \A i \in Idx :
              LET old == last.pre[i]
                  new == objects[i]
              IN  IF old.isLocked
                  THEN new.trail = old.trail /\ new.trailTimer = old.trailTimer
                  ELSE IF old.trailTimer + 1 = TRAIL_UPDATE_FREQ
                  THEN /\ new.trailTimer = 0
                       /\ new.trail = Sampled(old.trail, last.mid[i].position)
                  ELSE /\ new.trailTimer = old.trailTimer + 1
                       /\ new.trail = old.trail

\* The update that appends the first trail entry of a particle that was
\* locked during an earlier update: its 5th unlocked call, not its 5th.
C20_Witness ==
    /\ IsUpdate
    /\ calls[1].unlocked = TRAIL_UPDATE_FREQ
    /\ calls[1].all > TRAIL_UPDATE_FREQ
    /\ last.pre[1].trail = << >>
    /\ Len(objects[1].trail) = 1

\* The last update sampled particle i's trail.
SampledNow(i) ==
    /\ IsUpdate
    /\ ~last.pre[i].isLocked
    /\ last.pre[i].trailTimer + 1 = TRAIL_UPDATE_FREQ

PointInBounds(pt, r, b) ==
    /\ r <= pt.x /\ pt.x <= b.width - r
    /\ r <= pt.y /\ pt.y <= b.height - r

\* C21: the trail entry an update appends is the position updatePhysics
\* moved the particle to, before resolveBounds of that update; when
\* resolveBounds then moves the particle, the entry is not the particle's
\* position and lies outside the bounds the position is kept in.
C21_TrailBeforeClamp ==
    \A i \in Idx :
        SampledNow(i) =>
            LET trail == objects[i].trail
                entry == trail[Len(trail)]
            IN  /\ Len(trail) > 0
                /\ entry = last.mid[i].position
                /\ objects[i].position # last.mid[i].position =>
                      /\ entry # objects[i].position
                      /\ ~PointInBounds(entry, objects[i].radius, bounds)

\* An update in a roomy canvas that sampled the trail of a particle it
\* then clamped: the particle is inside the bounds, its newest trail entry
\* is not.
C21_Witness ==
    \E i \in Idx :
        /\ SampledNow(i)
        /\ Roomy(objects[i], bounds)
        /\ InBounds(objects[i], bounds)
        /\ ~PointInBounds(objects[i].trail[Len(objects[i].trail)],
                          objects[i].radius, bounds)

IntervalIdx == 1..Len(grounding.intervals)

\* Interval t has been cleared and the instance it captured has charge 0.
Discharged(t) ==
    /\ t \in IntervalIdx
    /\ ~grounding.intervals[t].running
    /\ ChargeOf(grounding.intervals[t].obj) = 0

\* What the last run of a callback did: it read last.b, the charge of the
\* instance its interval captured.  Below 0.1 it set the charge to 0 and
\* cleared the interval; otherwise it multiplied the charge by 0.8, which
\* neither raises its absolute value nor flips its sign, and left the
\* interval running.  It changed no particle but that instance: none at
\* all when objects no longer holds it.
TickEffect ==
    last.op = "tick" =>
        LET t      == last.a
            before == last.b
            obj    == grounding.intervals[t].obj
            now    == ChargeOf(obj)
        IN  /\ IF Abs(before) < ChargeScale \div 10
               THEN now = 0 /\ ~grounding.intervals[t].running
               ELSE /\ Abs(10 * now - 8 * before) <= 5
                    /\ Abs(now) <= Abs(before)
                    /\ Sgn(now) = Sgn(before)
                    /\ grounding.intervals[t].running
            /\ \A k \in Idx :
                  instances.held[k] # obj => objects[k] = last.pre[k]
            /\ \A k \in Idx :
                  objects[k] = [last.pre[k] EXCEPT !.charge = objects[k].charge]

\* handleGround captured the instance objects held at its index.
GroundEffect ==
    last.op = "ground" =>
        LET t == Len(grounding.intervals)
        IN  /\ grounding.intervals[t].running
            /\ grounding.intervals[t].obj = instances.held[last.a]
            /\ objects = last.pre

\* An interval keeps the instance it captured.
CaptureKept ==
    \A t \in IntervalIdx :
        /\ t \in 1..Len(grounding'.intervals)
        /\ grounding'.intervals[t].obj = grounding.intervals[t].obj

\* C22: once handleGround has set an interval, its callback eventually
\* sets the captured instance's charge to exactly 0 and clears the
\* interval; until then each run multiplies the charge by 0.8, so that its
\* absolute value never grows and its sign never flips; and the callback
\* keeps acting on the instance captured at the click, never on a particle
\* a later initializeDefault created.
C22_Ground ==
    /\ [](TickEffect /\ GroundEffect)
    /\ [][CaptureKept]_vars
    /\ \A t \in 1..MaxGrounds :
          (t \in IntervalIdx /\ grounding.intervals[t].running) ~> Discharged(t)

\* An interval that ran to its end on an instance initializeDefault had
\* replaced: that instance's charge is 0, the interval is cleared, and the
\* two particles created by the reset still carry their charges +5 and -5.
C22_Witness ==
    /\ \E t \in IntervalIdx :
          /\ Discharged(t)
          /\ ~Held(grounding.intervals[t].obj)
    /\ \A t \in IntervalIdx : ~Held(grounding.intervals[t].obj)
    /\ objects[1].charge = 5 * ChargeScale
    /\ objects[2].charge = -5 * ChargeScale

====
